---- MODULE Spec2Model ----
(***************************************************************************)
(* Model of scripts/global-functions.js: the messaging bridge              *)
(* (sendMessageToServiceWorker), the record access helpers built on it,    *)
(* the watch-time / watch-mode helpers and convertTimeToText.              *)
(***************************************************************************)
EXTENDS Integers, Sequences, FiniteSets, TLC

VARIABLES
    pc,         \* per invocation: "idle", "awaiting" (suspended on await), "returned", "threw"
    fn,         \* per invocation: name of the helper that was called
    sentBy,     \* per invocation: requests handed to chrome.runtime.sendMessage
    delivered,  \* per invocation: replies with which the runtime ran the callback
    promise,    \* per invocation: the promise made by sendMessageToServiceWorker
    result,     \* per invocation: value the helper's own promise resolved to
    errors,     \* per invocation: number of console.error calls
    logs,       \* per invocation: number of console.log calls
    timeUsage,  \* convertTimeToText: first argument
    abbrActive, \* convertTimeToText: second argument
    timeText    \* convertTimeToText: returned value

vars == <<pc, fn, sentBy, delivered, promise, result, errors, logs,
          timeUsage, abbrActive, timeText>>

bridgeVars == <<pc, fn, sentBy, delivered, promise, result, errors, logs>>
textVars == <<timeUsage, abbrActive, timeText>>

(***************************************************************************)
(* Bounds of the model.                                                    *)
(***************************************************************************)
MaxCalls == 2      \* concurrent helper invocations
MaxItems == 2      \* longest array the worker replies with
MaxId == 2         \* record ids passed to the by-id helpers
MaxTime == 7300    \* largest timeUsage given to convertTimeToText
MaxNeg == 3        \* most negative timeUsage is -MaxNeg

(***************************************************************************)
(* JavaScript values, all of one record shape so that they compare.        *)
(*   kind  : the type tag                                                  *)
(*   error : for an object, its "error" property: absent, falsy (false) or *)
(*           truthy (true)                                                 *)
(*   items : for an array of records, each record's numeric field          *)
(*   num   : for a number or a single record, its number                   *)
(*   str   : for a string, its text                                        *)
(***************************************************************************)
Val(k, e, i, n, s) == [kind |-> k, error |-> e, items |-> i, num |-> n, str |-> s]

Undefined == Val("undefined", "absent", <<>>, 0, "")
Null == Val("null", "absent", <<>>, 0, "")
JSTrue == Val("true", "absent", <<>>, 0, "")
JSFalse == Val("false", "absent", <<>>, 0, "")
NaN == Val("NaN", "absent", <<>>, 0, "")
Num(n) == Val("number", "absent", <<>>, n, "")
Str(s) == Val("string", "absent", <<>>, 0, s)
Obj(e) == Val("object", e, <<>>, 0, "")
Arr(i) == Val("array", "absent", i, 0, "")
Rec(n) == Val("record", "absent", <<>>, n, "")
TransportError == Val("lastError", "absent", <<>>, 0, "Could not establish connection")


(***************************************************************************)
(* TIME FORMATTING: convertTimeToText                                      *)
(***************************************************************************)

\* let min = Math.floor(timeUsage / 60)
min(t) == t \div 60

\* let sec = Math.floor(timeUsage - min * 60)
sec(t) == t - min(t) * 60

\* let hours = Math.floor(timeUsage / 3600)
hours(t) == t \div 3600

\* Mutation of remainingMinutes: the whole hours are not taken off first.
remainingMinutesKeepsHours(t) == t \div 60

\* let remainingMinutes = Math.floor((timeUsage - hours * 3600) / 60)
remainingMinutes(t) == (t - hours(t) * 3600) \div 60

\* Mutation of convertTimeToText: the first branch guarded by 0 <= timeUsage,
\* so that a negative number matches no branch.
convertTimeToTextNonNegative(t, abbr) ==
    IF 0 <= t /\ t < 60
    THEN Str(ToString(t) \o " seconds")
    ELSE IF t >= 60
    THEN IF t < 3600
         THEN IF abbr
              THEN Str(ToString(min(t)) \o " " \o (IF min(t) = 1 THEN "Min" ELSE "Mins")
                       \o " " \o ToString(sec(t)) \o " Sec")
              ELSE Str(ToString(min(t)) \o " " \o (IF min(t) = 1 THEN "Minute" ELSE "Minutes")
                       \o " " \o ToString(sec(t)) \o " Seconds")
         ELSE IF t >= 3600
         THEN Str(ToString(hours(t)) \o " Hr" \o (IF hours(t) # 1 THEN "s" ELSE "")
                  \o " " \o ToString(remainingMinutes(t)) \o " "
                  \o (IF remainingMinutes(t) = 1 THEN "Min" ELSE "Mins"))
         ELSE Undefined
    ELSE Undefined

\* window.convertTimeToText = (timeUsage, abbrActive = false) => {...}
\* A path that reaches the end of the function body returns undefined.
convertTimeToText(t, abbr) ==
    IF t < 60
    THEN Str(ToString(t) \o " seconds")
    ELSE IF t >= 60
    THEN IF t < 3600
         THEN IF abbr
              THEN Str(ToString(min(t)) \o " " \o (IF min(t) = 1 THEN "Min" ELSE "Mins")
                       \o " " \o ToString(sec(t)) \o " Sec")
              ELSE Str(ToString(min(t)) \o " " \o (IF min(t) = 1 THEN "Minute" ELSE "Minutes")
                       \o " " \o ToString(sec(t)) \o " Seconds")
         ELSE IF t >= 3600
         THEN Str(ToString(hours(t)) \o " Hr" \o (IF hours(t) # 1 THEN "s" ELSE "")
                  \o " " \o ToString(remainingMinutes(t)) \o " "
                  \o (IF remainingMinutes(t) = 1 THEN "Min" ELSE "Mins"))
         ELSE Undefined
    ELSE Undefined

\* The value of timeText before convertTimeToText has been called.
NotCalled == Val("not-called", "absent", <<>>, 0, "")

\* A caller applies convertTimeToText to its arguments.
CallConvertTimeToText ==
    /\ timeText = NotCalled
    /\ timeText' = convertTimeToText(timeUsage, abbrActive)
    /\ UNCHANGED <<timeUsage, abbrActive>>
    /\ UNCHANGED bridgeVars


(***************************************************************************)
(* STORAGE RELATED: the messaging bridge                                   *)
(***************************************************************************)

\* States of the promise returned by sendMessageToServiceWorker.
NoPromise == [state |-> "none", value |-> Undefined]
Pending == [state |-> "pending", value |-> Undefined]
Fulfilled(v) == [state |-> "fulfilled", value |-> v]
Rejected(e) == [state |-> "rejected", value |-> e]

\* resolve(x) / reject(x) on a promise: only a pending promise changes.
Settle(p, q) == IF p.state = "pending" THEN q ELSE p

\* Mutation of sendMessageToServiceWorker: the request is dispatched twice.
sendMessageToServiceWorkerTwice(c, message) ==
    /\ promise' = [promise EXCEPT ![c] = Pending]
    /\ sentBy' = [sentBy EXCEPT ![c] = Append(Append(@, message), message)]

\* window.sendMessageToServiceWorker = (message) => new Promise(... sendMessage ...)
\* up to the return of the new, pending promise.
sendMessageToServiceWorker(c, message) ==
    /\ promise' = [promise EXCEPT ![c] = Pending]
    /\ sentBy' = [sentBy EXCEPT ![c] = Append(@, message)]

\* Mutation of ReplyCallback: resolve and reject are kept in one shared slot, so
\* a reply settles the promise created last among the pending ones.
ReplyCallbackSharedSlot(c, lastError, response) ==
    /\ Len(delivered[c]) < Len(sentBy[c])
    /\ delivered' = [delivered EXCEPT
                       ![c] = Append(@, [lastError |-> lastError, response |-> response])]
    /\ LET waiting == {d \in DOMAIN pc : promise[d].state = "pending"}
           last == CHOOSE d \in waiting : \A e \in waiting : e <= d
       IN promise' = [promise EXCEPT
                        ![last] = Settle(@, IF lastError # Undefined
                                            THEN Rejected(lastError)
                                            ELSE Fulfilled(response))]
    /\ UNCHANGED <<pc, fn, sentBy, result, errors, logs>>
    /\ UNCHANGED textVars

\* (response) => { if (chrome.runtime.lastError) reject(...) else resolve(response) }
\* run by the runtime once for a request, with chrome.runtime.lastError as set
\* for the time of this callback.
ReplyCallback(c, lastError, response) ==
    /\ Len(delivered[c]) < Len(sentBy[c])
    /\ delivered' = [delivered EXCEPT
                       ![c] = Append(@, [lastError |-> lastError, response |-> response])]
    /\ promise' = [promise EXCEPT
                     ![c] = Settle(@, IF lastError # Undefined
                                      THEN Rejected(lastError)
                                      ELSE Fulfilled(response))]
    /\ UNCHANGED <<pc, fn, sentBy, result, errors, logs>>
    /\ UNCHANGED textVars

(***************************************************************************)
(* STORAGE RELATED: the record access helpers.  For a helper X:            *)
(*   XRequest(...)  the message object it builds,                          *)
(*   X(c, ...)      the call: the async function starts, dispatches its    *)
(*                  request and suspends on await,                         *)
(*   XResume(p)     the rest of its body once the awaited promise p has    *)
(*                  settled: how it completes and what it writes to the    *)
(*                  console.                                               *)
(***************************************************************************)
Completed(v, e, l) == [completion |-> "return", value |-> v, errors |-> e, logs |-> l]

filterRecordsGlobalRequest(table, property, value) ==
    [operation |-> "filterRecords", table |-> table, property |-> property, value |-> value]

filterRecordsGlobal(c, table, property, value) ==
    /\ pc[c] = "idle"
    /\ pc' = [pc EXCEPT ![c] = "awaiting"]
    /\ fn' = [fn EXCEPT ![c] = "filterRecordsGlobal"]
    /\ sendMessageToServiceWorker(c, filterRecordsGlobalRequest(table, property, value))
    /\ UNCHANGED logs
    /\ UNCHANGED <<delivered, result, errors>>
    /\ UNCHANGED textVars

filterRecordsGlobalResume(p) ==
    IF p.state = "rejected"
    THEN Completed(JSFalse, 1, 0)
    ELSE Completed(p.value, 0, 0)

resetTableGlobalRequest(table) ==
    [operation |-> "resetTable", table |-> table]

resetTableGlobal(c, table) ==
    /\ pc[c] = "idle"
    /\ pc' = [pc EXCEPT ![c] = "awaiting"]
    /\ fn' = [fn EXCEPT ![c] = "resetTableGlobal"]
    /\ sendMessageToServiceWorker(c, resetTableGlobalRequest(table))
    /\ UNCHANGED logs
    /\ UNCHANGED <<delivered, result, errors>>
    /\ UNCHANGED textVars

\* Mutation of resetTableGlobalResume: the catch block logs and returns nothing.
resetTableGlobalResumeNoReturn(p) ==
    IF p.state = "rejected"
    THEN Completed(Undefined, 1, 0)
    ELSE Completed(p.value, 0, 0)

resetTableGlobalResume(p) ==
    IF p.state = "rejected"
    THEN Completed(JSFalse, 1, 0)
    ELSE Completed(p.value, 0, 0)

selectAllRecordsGlobalRequest(table) ==
    [operation |-> "selectAllRecords", table |-> table]

selectAllRecordsGlobal(c, table) ==
    /\ pc[c] = "idle"
    /\ pc' = [pc EXCEPT ![c] = "awaiting"]
    /\ fn' = [fn EXCEPT ![c] = "selectAllRecordsGlobal"]
    /\ sendMessageToServiceWorker(c, selectAllRecordsGlobalRequest(table))
    /\ UNCHANGED logs
    /\ UNCHANGED <<delivered, result, errors>>
    /\ UNCHANGED textVars

selectAllRecordsGlobalResume(p) ==
    IF p.state = "rejected"
    THEN Completed(JSFalse, 1, 0)
    ELSE Completed(p.value, 0, 0)

selectRecordByIdGlobalRequest(table, id) ==
    [operation |-> "selectRecordById", table |-> table, index |-> id]

selectRecordByIdGlobal(c, table, id) ==
    /\ pc[c] = "idle"
    /\ pc' = [pc EXCEPT ![c] = "awaiting"]
    /\ fn' = [fn EXCEPT ![c] = "selectRecordByIdGlobal"]
    /\ sendMessageToServiceWorker(c, selectRecordByIdGlobalRequest(table, id))
    /\ UNCHANGED logs
    /\ UNCHANGED <<delivered, result, errors>>
    /\ UNCHANGED textVars

selectRecordByIdGlobalResume(p) ==
    IF p.state = "rejected"
    THEN Completed(JSFalse, 1, 0)
    ELSE Completed(p.value, 0, 0)

updateRecordByPropertyGlobalRequest(table, property, value, newRecords) ==
    [operation |-> "updateRecordByProperty", table |-> table, property |-> property,
     value |-> value, newRecords |-> newRecords]

updateRecordByPropertyGlobal(c, table, property, value, newRecords) ==
    /\ pc[c] = "idle"
    /\ pc' = [pc EXCEPT ![c] = "awaiting"]
    /\ fn' = [fn EXCEPT ![c] = "updateRecordByPropertyGlobal"]
    /\ sendMessageToServiceWorker(c, updateRecordByPropertyGlobalRequest(table, property, value, newRecords))
    /\ UNCHANGED logs
    /\ UNCHANGED <<delivered, result, errors>>
    /\ UNCHANGED textVars

\* Mutation of updateRecordByPropertyGlobalResume: the reply's error flag is
\* not looked at.
updateRecordByPropertyGlobalResumeNoFlag(p) ==
    IF p.state = "rejected"
    THEN Completed(JSFalse, 1, 0)
    ELSE Completed(JSTrue, 0, 1)

\* sendUpdatedRecords.error on undefined or null throws a TypeError, which the
\* catch block takes like the transport error and like the thrown Error.
updateRecordByPropertyGlobalResume(p) ==
    IF p.state = "rejected"
    THEN Completed(JSFalse, 1, 0)
    ELSE IF p.value.kind \in {"undefined", "null"}
    THEN Completed(JSFalse, 1, 0)
    ELSE IF p.value.error # "truthy"
    THEN Completed(JSTrue, 0, 1)
    ELSE Completed(JSFalse, 1, 0)

deleteRecordByIdGlobalRequest(table, id) ==
    [operation |-> "deleteRecordById", table |-> table, id |-> id]

\* console.log(table); console.log(id); come before the request.
deleteRecordByIdGlobal(c, table, id) ==
    /\ pc[c] = "idle"
    /\ pc' = [pc EXCEPT ![c] = "awaiting"]
    /\ fn' = [fn EXCEPT ![c] = "deleteRecordByIdGlobal"]
    /\ sendMessageToServiceWorker(c, deleteRecordByIdGlobalRequest(table, id))
    /\ logs' = [logs EXCEPT ![c] = @ + 2]
    /\ UNCHANGED <<delivered, result, errors>>
    /\ UNCHANGED textVars

deleteRecordByIdGlobalResume(p) ==
    IF p.state = "rejected"
    THEN Completed(JSFalse, 1, 0)
    ELSE Completed(p.value, 0, 1)

insertRecordsGlobalRequest(table, newRecords) ==
    [operation |-> "insertRecords", table |-> table, records |-> newRecords]

insertRecordsGlobal(c, table, newRecords) ==
    /\ pc[c] = "idle"
    /\ pc' = [pc EXCEPT ![c] = "awaiting"]
    /\ fn' = [fn EXCEPT ![c] = "insertRecordsGlobal"]
    /\ sendMessageToServiceWorker(c, insertRecordsGlobalRequest(table, newRecords))
    /\ UNCHANGED logs
    /\ UNCHANGED <<delivered, result, errors>>
    /\ UNCHANGED textVars

\* Mutation of insertRecordsGlobalResume: success is reported as true.
insertRecordsGlobalResumeTrue(p) ==
    IF p.state = "rejected"
    THEN Completed(JSFalse, 1, 0)
    ELSE Completed(JSTrue, 0, 0)

insertRecordsGlobalResume(p) ==
    IF p.state = "rejected"
    THEN Completed(JSFalse, 1, 0)
    ELSE Completed(p.value, 0, 0)


(***************************************************************************)
(* WATCH TIME RELATED and WATCH MODE RELATED helpers                       *)
(***************************************************************************)
getTotalWatchTimeRequest ==
    [operation |-> "selectAllRecords", table |-> "watch-times"]

getTotalWatchTime(c) ==
    /\ pc[c] = "idle"
    /\ pc' = [pc EXCEPT ![c] = "awaiting"]
    /\ fn' = [fn EXCEPT ![c] = "getTotalWatchTime"]
    /\ sendMessageToServiceWorker(c, getTotalWatchTimeRequest)
    /\ UNCHANGED logs
    /\ UNCHANGED <<delivered, result, errors>>
    /\ UNCHANGED textVars

\* Mutation of totalTimeLoop: the loop starts at the second record.
RECURSIVE totalTimeLoopSkipsFirst(_, _, _)
totalTimeLoopSkipsFirst(items, index, totalTime) ==
    IF index > Len(items)
    THEN totalTime
    ELSE IF index = 1
    THEN totalTimeLoopSkipsFirst(items, index + 1, totalTime)
    ELSE totalTimeLoopSkipsFirst(items, index + 1, totalTime + items[index])

\* for (let index in totalWatchTimes)
\*   totalTime += totalWatchTimes[index]["total-watch-time"];
\* over an array, whose items are modelled by their "total-watch-time".
RECURSIVE totalTimeLoop(_, _, _)
totalTimeLoop(items, index, totalTime) ==
    IF index > Len(items)
    THEN totalTime
    ELSE totalTimeLoop(items, index + 1, totalTime + items[index])

\* for-in over undefined, null, a boolean or an object without properties runs
\* no iteration; over {error: true|false} it adds undefined, which gives NaN.
\* The catch block logs the error and returns nothing.
getTotalWatchTimeResume(p) ==
    IF p.state = "rejected"
    THEN Completed(Undefined, 1, 0)
    ELSE IF p.value.kind = "array"
    THEN Completed(Num(totalTimeLoop(p.value.items, 1, 0)), 0, 0)
    ELSE IF p.value.kind = "object" /\ p.value.error # "absent"
    THEN Completed(NaN, 0, 0)
    ELSE Completed(Num(0), 0, 0)

getCurrentWatchModeRequest ==
    [operation |-> "filterRecords", table |-> "watch-modes", property |-> "active",
     value |-> JSTrue]

getCurrentWatchMode(c) ==
    /\ pc[c] = "idle"
    /\ pc' = [pc EXCEPT ![c] = "awaiting"]
    /\ fn' = [fn EXCEPT ![c] = "getCurrentWatchMode"]
    /\ sendMessageToServiceWorker(c, getCurrentWatchModeRequest)
    /\ UNCHANGED logs
    /\ UNCHANGED <<delivered, result, errors>>
    /\ UNCHANGED textVars

\* data[0]: a TypeError on undefined or null (caught: logged, false returned),
\* the first item of a non-empty array, undefined otherwise.
getCurrentWatchModeResume(p) ==
    IF p.state = "rejected"
    THEN Completed(JSFalse, 1, 0)
    ELSE IF p.value.kind \in {"undefined", "null"}
    THEN Completed(JSFalse, 1, 0)
    ELSE IF p.value.kind = "array" /\ p.value.items # <<>>
    THEN Completed(Rec(p.value.items[1]), 0, 0)
    ELSE Completed(Undefined, 0, 0)

(***************************************************************************)
(* The continuation of a suspended helper, run once the awaited promise    *)
(* has settled.                                                            *)
(***************************************************************************)
ResumeOf(name, p) ==
    CASE name = "filterRecordsGlobal" -> filterRecordsGlobalResume(p)
      [] name = "resetTableGlobal" -> resetTableGlobalResume(p)
      [] name = "selectAllRecordsGlobal" -> selectAllRecordsGlobalResume(p)
      [] name = "selectRecordByIdGlobal" -> selectRecordByIdGlobalResume(p)
      [] name = "updateRecordByPropertyGlobal" -> updateRecordByPropertyGlobalResume(p)
      [] name = "deleteRecordByIdGlobal" -> deleteRecordByIdGlobalResume(p)
      [] name = "insertRecordsGlobal" -> insertRecordsGlobalResume(p)
      [] name = "getTotalWatchTime" -> getTotalWatchTimeResume(p)
      [] name = "getCurrentWatchMode" -> getCurrentWatchModeResume(p)

Resume(c) ==
    /\ pc[c] = "awaiting"
    /\ promise[c].state \in {"fulfilled", "rejected"}
    /\ LET out == ResumeOf(fn[c], promise[c])
       IN /\ pc' = [pc EXCEPT ![c] = IF out.completion = "return" THEN "returned" ELSE "threw"]
          /\ result' = [result EXCEPT ![c] = out.value]
          /\ errors' = [errors EXCEPT ![c] = @ + out.errors]
          /\ logs' = [logs EXCEPT ![c] = @ + out.logs]
    /\ UNCHANGED <<fn, sentBy, delivered, promise>>
    /\ UNCHANGED textVars

(***************************************************************************)
(* Inputs                                                                  *)
(***************************************************************************)
RECURSIVE SeqsUpTo(_, _)
SeqsUpTo(S, n) ==
    IF n = 0
    THEN {<<>>}
    ELSE LET shorter == SeqsUpTo(S, n - 1)
         IN shorter \cup {Append(q, x) : q \in {r \in shorter : Len(r) = n - 1}, x \in S}

Durations == {10, 20}

\* What the worker may pass to sendResponse.
Payloads ==
    {Undefined, Null, JSTrue, Obj("absent"), Obj("falsy"), Obj("truthy")}
    \cup {Arr(i) : i \in SeqsUpTo(Durations, MaxItems)}

\* A reply is either a transport error (lastError set, no response) or a response.
Replies ==
    {[lastError |-> TransportError, response |-> Undefined]}
    \cup {[lastError |-> Undefined, response |-> v] : v \in Payloads}

Tables == {"watch-times", "watch-modes"}
Properties == {"id"}
Values == {Num(1), Str("long-form")}
Ids == 1..MaxId
RecordSets == {Arr(<<10>>)}
NewRecords == {Obj("absent")}

\* The smaller inputs of the specification with several calls in flight.
ConcReplies ==
    {[lastError |-> TransportError, response |-> Undefined],
     [lastError |-> Undefined, response |-> Arr(<<10>>)],
     [lastError |-> Undefined, response |-> Arr(<<20>>)]}
ConcTables == {"watch-times"}
OneCall == {1}
ConcCalls == 1..MaxCalls
ConcValues == {Num(1)}
ConcIds == {1}

(***************************************************************************)
(* Specifications                                                          *)
(***************************************************************************)
InitBridge(calls) ==
    /\ pc = [c \in calls |-> "idle"]
    /\ fn = [c \in calls |-> ""]
    /\ sentBy = [c \in calls |-> <<>>]
    /\ delivered = [c \in calls |-> <<>>]
    /\ promise = [c \in calls |-> NoPromise]
    /\ result = [c \in calls |-> Undefined]
    /\ errors = [c \in calls |-> 0]
    /\ logs = [c \in calls |-> 0]

InitText ==
    /\ timeUsage \in (0 - MaxNeg)..MaxTime
    /\ abbrActive \in BOOLEAN
    /\ timeText = NotCalled

\* One helper call and its reply.
Init ==
    /\ InitBridge(OneCall)
    /\ timeUsage = 0
    /\ abbrActive = FALSE
    /\ timeText = NotCalled

\* Several helper calls in flight.
InitConc ==
    /\ InitBridge(ConcCalls)
    /\ timeUsage = 0
    /\ abbrActive = FALSE
    /\ timeText = NotCalled

\* convertTimeToText on every input.
InitFmt ==
    /\ InitBridge(OneCall)
    /\ InitText

Helpers(c, T, P, V, I) ==
    \/ \E t \in T, p \in P, v \in V : filterRecordsGlobal(c, t, p, v)
    \/ \E t \in T : resetTableGlobal(c, t)
    \/ \E t \in T : selectAllRecordsGlobal(c, t)
    \/ \E t \in T, i \in I : selectRecordByIdGlobal(c, t, i)
    \/ \E t \in T, p \in P, v \in V, n \in NewRecords :
          updateRecordByPropertyGlobal(c, t, p, v, n)
    \/ \E t \in T, i \in I : deleteRecordByIdGlobal(c, t, i)
    \/ \E t \in T, r \in RecordSets : insertRecordsGlobal(c, t, r)
    \/ getTotalWatchTime(c)
    \/ getCurrentWatchMode(c)

Next ==
    \E c \in OneCall :
        \/ Helpers(c, Tables, Properties, Values, Ids)
        \/ \E r \in Replies : ReplyCallback(c, r.lastError, r.response)
        \/ Resume(c)

NextConc ==
    \E c \in ConcCalls :
        \/ Helpers(c, ConcTables, Properties, ConcValues, ConcIds)
        \/ \E r \in ConcReplies : ReplyCallback(c, r.lastError, r.response)
        \/ Resume(c)

NextFmt == CallConvertTimeToText

Spec == Init /\ [][Next]_vars
SpecConc == InitConc /\ [][NextConc]_vars
SpecFmt == InitFmt /\ [][NextFmt]_vars


(***************************************************************************)
(* Properties                                                              *)
(***************************************************************************)
RecordAccessHelpers ==
    {"filterRecordsGlobal", "resetTableGlobal", "selectAllRecordsGlobal",
     "selectRecordByIdGlobal", "updateRecordByPropertyGlobal",
     "deleteRecordByIdGlobal", "insertRecordsGlobal"}

\* The reply the runtime gave to invocation c's request.
ReplyTo(c) == delivered[c][1]
Replied(c) == delivered[c] # <<>>
TransportRejected(c) == Replied(c) /\ ReplyTo(c).lastError # Undefined
WorkerReplied(c) == Replied(c) /\ ReplyTo(c).lastError = Undefined

\* C1: given a transport rejection (chrome.runtime.lastError set when the reply
\* callback runs), each of the seven record access helpers resolves to false
\* and has logged exactly one error, whatever its table and arguments.
C1_TransportRejectionGivesFalse ==
    \A c \in DOMAIN pc :
        (pc[c] # "awaiting" /\ fn[c] \in RecordAccessHelpers /\ TransportRejected(c))
            => /\ pc[c] = "returned"
               /\ result[c] = JSFalse
               /\ errors[c] = 1

\* C1 witness: deleteRecordByIdGlobal has returned after a transport rejection.
C1_Witness ==
    \E c \in DOMAIN pc :
        /\ pc[c] = "returned"
        /\ fn[c] = "deleteRecordByIdGlobal"
        /\ TransportRejected(c)
        /\ result[c] = JSFalse
        /\ errors[c] = 1

\* C2 as stated: for each of the seven record access helpers, when the worker
\* replies without a transport error the helper's result is the worker's
\* payload unchanged, for every payload.
C2_PayloadUnchanged ==
    \A c \in DOMAIN pc :
        (pc[c] = "returned" /\ fn[c] \in RecordAccessHelpers /\ WorkerReplied(c))
            => result[c] = ReplyTo(c).response

\* C2 amended: for the six record access helpers other than
\* updateRecordByPropertyGlobal, when the worker replies without a transport
\* error the helper's result is the worker's payload unchanged, for every
\* payload; updateRecordByPropertyGlobal resolves to a boolean instead.
C2_PayloadUnchangedExceptUpdate ==
    \A c \in DOMAIN pc :
        (pc[c] = "returned" /\ fn[c] \in RecordAccessHelpers /\ WorkerReplied(c))
            => IF fn[c] = "updateRecordByPropertyGlobal"
               THEN result[c] \in {JSTrue, JSFalse}
               ELSE result[c] = ReplyTo(c).response

\* C2 witness: insertRecordsGlobal has returned the two-record array the worker
\* replied with.
C2_Witness ==
    \E c \in DOMAIN pc :
        /\ pc[c] = "returned"
        /\ fn[c] = "insertRecordsGlobal"
        /\ WorkerReplied(c)
        /\ ReplyTo(c).response = Arr(<<10, 20>>)
        /\ result[c] = Arr(<<10, 20>>)

\* C3: every request a record access helper dispatches has that helper's fixed
\* operation and uses only the field names of the Request shape (operation,
\* table, index, property, value, records, newRecords); selectRecordByIdGlobal
\* and deleteRecordByIdGlobal both carry the record id in the field index.
C3_RequestShape ==
    \A c \in DOMAIN pc :
        fn[c] \in RecordAccessHelpers =>
            \A k \in 1..Len(sentBy[c]) :
                LET message == sentBy[c][k]
                IN /\ DOMAIN message \subseteq
                        {"operation", "table", "index", "property", "value",
                         "records", "newRecords"}
                   /\ message.operation =
                        (CASE fn[c] = "filterRecordsGlobal" -> "filterRecords"
                           [] fn[c] = "resetTableGlobal" -> "resetTable"
                           [] fn[c] = "selectAllRecordsGlobal" -> "selectAllRecords"
                           [] fn[c] = "selectRecordByIdGlobal" -> "selectRecordById"
                           [] fn[c] = "updateRecordByPropertyGlobal" -> "updateRecordByProperty"
                           [] fn[c] = "deleteRecordByIdGlobal" -> "deleteRecordById"
                           [] fn[c] = "insertRecordsGlobal" -> "insertRecords")
                   /\ fn[c] \in {"selectRecordByIdGlobal", "deleteRecordByIdGlobal"}
                        => "index" \in DOMAIN message

\* C4: for every non-negative integer n and both values of the abbreviation
\* flag, convertTimeToText(n, abbr) is: "{n} seconds" when n < 60; with
\* m = n div 60 and s = n mod 60, "{m} Minute(s) {s} Seconds" (abbreviated
\* "{m} Min(s) {s} Sec"), singular iff m = 1, when 60 <= n < 3600; with
\* h = n div 3600 and m = (n mod 3600) div 60, "{h} Hr(s) {m} Min(s)", each
\* singular iff it is 1, when n >= 3600; the remainders shown are in 0..59.
C4_ConvertTimeToTextReference ==
    (timeText # NotCalled /\ timeUsage >= 0) =>
        LET n == timeUsage
            m == n \div 60
            s == n % 60
            h == n \div 3600
            rm == (n % 3600) \div 60
        IN IF n < 60
           THEN timeText = Str(ToString(n) \o " seconds")
           ELSE IF n < 3600
           THEN /\ timeText =
                     Str(IF abbrActive
                         THEN IF m = 1
                              THEN "1 Min " \o ToString(s) \o " Sec"
                              ELSE ToString(m) \o " Mins " \o ToString(s) \o " Sec"
                         ELSE IF m = 1
                              THEN "1 Minute " \o ToString(s) \o " Seconds"
                              ELSE ToString(m) \o " Minutes " \o ToString(s) \o " Seconds")
                /\ sec(n) \in 0..59
           ELSE /\ timeText =
                     Str((IF h = 1 THEN "1 Hr" ELSE ToString(h) \o " Hrs") \o " "
                         \o (IF rm = 1 THEN "1 Min" ELSE ToString(rm) \o " Mins"))
                /\ remainingMinutes(n) \in 0..59

\* C4 witness: convertTimeToText(7260) has returned "2 Hrs 1 Min".
C4_Witness ==
    /\ timeUsage = 7260
    /\ timeText = Str("2 Hrs 1 Min")

\* C5: getTotalWatchTime resolves to the sum of the "total-watch-time" field
\* over the records the worker returns (0 for none, 30 for 10 and 20), and to
\* undefined, not false, when the transport rejects.
C5_TotalWatchTimeIsSum ==
    \A c \in DOMAIN pc :
        (pc[c] # "awaiting" /\ fn[c] = "getTotalWatchTime" /\ Replied(c)) =>
            /\ pc[c] = "returned"
            /\ TransportRejected(c) => result[c] = Undefined
            /\ (WorkerReplied(c) /\ ReplyTo(c).response.kind = "array") =>
                  LET items == ReplyTo(c).response.items
                      sum[k \in 0..Len(items)] ==
                          IF k = 0 THEN 0 ELSE sum[k - 1] + items[Len(items) + 1 - k]
                  IN /\ result[c] = Num(sum[Len(items)])
                     /\ items = <<>> => result[c] = Num(0)
                     /\ items = <<10, 20>> => result[c] = Num(30)

\* C5 witness: getTotalWatchTime has returned 30 for the records 10 and 20.
C5_Witness ==
    \E c \in DOMAIN pc :
        /\ pc[c] = "returned"
        /\ fn[c] = "getTotalWatchTime"
        /\ WorkerReplied(c)
        /\ ReplyTo(c).response = Arr(<<10, 20>>)
        /\ result[c] = Num(30)

\* C6: getCurrentWatchMode, when the worker replies with an empty list, returns
\* a distinct "not found" value and never undefined; with one or more matches
\* it returns the first element of the reply; on transport failure it returns
\* false.
C6_NotFoundIsNotUndefined ==
    \A c \in DOMAIN pc :
        (pc[c] = "returned" /\ fn[c] = "getCurrentWatchMode") =>
            /\ TransportRejected(c) => result[c] = JSFalse
            /\ (WorkerReplied(c) /\ ReplyTo(c).response.kind = "array") =>
                  IF ReplyTo(c).response.items = <<>>
                  THEN result[c] # Undefined
                  ELSE result[c] = Rec(ReplyTo(c).response.items[1])

\* C7: each helper call dispatches exactly one request; its promise is pending
\* exactly while that request's reply callback has not run, and is then
\* resolved with the reply or rejected with the transport error; once settled
\* it never changes, and no further request is dispatched (no retry, no
\* timeout: without a reply the call stays pending).
C7_OneRequestSettledOnceByReply ==
    /\ [](\A c \in DOMAIN pc :
            /\ pc[c] # "idle" => Len(sentBy[c]) = 1
            /\ pc[c] = "idle" => (sentBy[c] = <<>> /\ promise[c] = NoPromise)
            /\ (pc[c] # "idle" /\ ~Replied(c)) => (promise[c] = Pending /\ pc[c] = "awaiting")
            /\ TransportRejected(c) => promise[c] = Rejected(ReplyTo(c).lastError)
            /\ WorkerReplied(c) => promise[c] = Fulfilled(ReplyTo(c).response))
    /\ [][\A c \in DOMAIN pc :
            /\ promise[c].state \in {"fulfilled", "rejected"} => promise'[c] = promise[c]
            /\ sentBy[c] # <<>> => sentBy'[c] = sentBy[c]
            /\ promise'[c] # promise[c] =>
                  \/ (pc[c] = "idle" /\ promise'[c] = Pending)
                  \/ (promise[c] = Pending /\ delivered'[c] # delivered[c])]_vars

\* C7 witness: a call whose one request met a transport error has returned,
\* having dispatched nothing more, while another call is still pending.
C7_Witness ==
    \E c, d \in DOMAIN pc :
        /\ pc[c] = "returned"
        /\ promise[c].state = "rejected"
        /\ Len(sentBy[c]) = 1
        /\ pc[d] = "awaiting"
        /\ promise[d] = Pending

\* C8 as stated: updateRecordByPropertyGlobal resolves to true exactly when the
\* worker replied with a payload whose error flag is absent or falsy; when the
\* reply carries an error flag, or the transport rejects, it resolves to false,
\* never throws to its caller, and logs exactly one error.
C8_TrueIffNoErrorFlag ==
    \A c \in DOMAIN pc :
        (pc[c] # "awaiting" /\ fn[c] = "updateRecordByPropertyGlobal") =>
            /\ pc[c] = "returned"
            /\ result[c] = JSTrue <=>
                  (WorkerReplied(c) /\ ReplyTo(c).response.error # "truthy")
            /\ (TransportRejected(c) \/ ReplyTo(c).response.error = "truthy") =>
                  (result[c] = JSFalse /\ errors[c] = 1)

\* C8 amended: updateRecordByPropertyGlobal resolves to true exactly when the
\* worker replied with a payload other than undefined or null whose error flag
\* is absent or falsy; when the reply carries an error flag, is undefined or
\* null, or the transport rejects, it resolves to false, never throws to its
\* caller, and logs exactly one error.
C8_TrueIffPayloadWithoutErrorFlag ==
    \A c \in DOMAIN pc :
        (pc[c] # "awaiting" /\ fn[c] = "updateRecordByPropertyGlobal") =>
            LET accepted == /\ WorkerReplied(c)
                            /\ ReplyTo(c).response.kind \notin {"undefined", "null"}
                            /\ ReplyTo(c).response.error # "truthy"
            IN /\ pc[c] = "returned"
               /\ result[c] = JSTrue <=> accepted
               /\ accepted => errors[c] = 0
               /\ ~accepted => (result[c] = JSFalse /\ errors[c] = 1)

\* C8 witness: updateRecordByPropertyGlobal has returned false, with one error
\* logged, for a reply that carries an error flag.
C8_Witness ==
    \E c \in DOMAIN pc :
        /\ pc[c] = "returned"
        /\ fn[c] = "updateRecordByPropertyGlobal"
        /\ WorkerReplied(c)
        /\ ReplyTo(c).response = Obj("truthy")
        /\ result[c] = JSFalse
        /\ errors[c] = 1

\* C9 as stated: for every negative integer input convertTimeToText matches no
\* branch and yields undefined.
C9_NegativeGivesUndefined ==
    (timeText # NotCalled /\ timeUsage < 0) => timeText = Undefined

\* C9 amended: for every negative integer input n convertTimeToText takes its
\* first branch (n < 60) and returns the string "{n} seconds".
C9_NegativeGivesSeconds ==
    (timeText # NotCalled /\ timeUsage < 0) =>
        timeText = Str(ToString(timeUsage) \o " seconds")

\* C9 witness: convertTimeToText(-1) has returned "-1 seconds".
C9_Witness ==
    /\ timeUsage = 0 - 1
    /\ timeText = Str("-1 seconds")

\* C10: with several helper calls in flight, each call's promise and result
\* depend only on the reply or transport error of its own request, in every
\* interleaving and order of replies: none receives another call's payload or
\* failure.
C10_OwnReplyOnly ==
    \A c \in DOMAIN pc :
        /\ ~Replied(c) => (promise[c].state \in {"none", "pending"} /\ pc[c] \in {"idle", "awaiting"})
        /\ Replied(c) =>
              LET own == IF ReplyTo(c).lastError # Undefined
                         THEN Rejected(ReplyTo(c).lastError)
                         ELSE Fulfilled(ReplyTo(c).response)
              IN /\ promise[c] = own
                 /\ pc[c] # "awaiting" => result[c] = ResumeOf(fn[c], own).value

\* C10 witness: two calls of the same helper are in flight; the second has been
\* answered with records while the first is still pending.
C10_Witness ==
    /\ pc[1] = "awaiting"
    /\ promise[1] = Pending
    /\ pc[2] = "awaiting"
    /\ fn[2] = fn[1]
    /\ promise[2] = Fulfilled(Arr(<<20>>))

====
